---------------------------- MODULE Spec2Model ----------------------------
(***************************************************************************)
(* Demandit: the multi-tenant authorization rules (row level security      *)
(* policies of database_migration.sql and demand_letter_drafts_schema.sql) *)
(* and the draft versioning service (src/services/draftService.js), as a   *)
(* state machine over the relational store.                                *)
(*                                                                         *)
(* Deployed schema: database_migration.sql, demand_letter_drafts_schema.sql*)
(* and fix_user_profiles_rls.sql (the user_profiles SELECT policy of the   *)
(* main migration queries user_profiles itself; the fix replaces it by the *)
(* SECURITY DEFINER function get_user_company_id).                         *)
(*                                                                         *)
(* Every request runs as one caller (auth.uid()).  A request that makes    *)
(* one statement is one action.  generateDraft makes two round trips (the  *)
(* rpc get_next_draft_version, then the INSERT), so it is two actions and  *)
(* other requests interleave between them.                                 *)
(***************************************************************************)
EXTENDS Integers, Sequences, FiniteSets, TLC

\* ------------------------------------------------------------------ bounds
MaxDrafts == 2      \* draft rows ever inserted (fresh uuids)
MaxClock == 2       \* readings of the wall clock, 1..MaxClock
MaxCases == 1       \* case rows createCase inserts (fresh uuids)
MaxTemplates == 1   \* template rows ever inserted (fresh uuids)
MaxMessages == 2    \* message rows ever inserted (fresh uuids)
MaxSnapshots == 2   \* case_templates rows ever inserted (fresh uuids)
MaxPolicyDepth == 8 \* policies nested in one expansion: one per table
MaxInFlight == 2    \* onSave calls of the editor in flight at once

\* ------------------------------------------------------------- directory
\* auth.users / user_profiles: every user belongs to exactly one company.
Users == {"A", "B", "X"}
Companies == {"O1", "O2"}
user_profiles == [u \in Users |-> IF u = "X" THEN "O2" ELSE "O1"]

GeneratedTexts == {"t1"}   \* letters the text generation returns
EditedTexts == {"t2"}      \* contents an editor saves
DraftIds == 1..MaxDrafts
CaseIds == 1..MaxCases
TemplateIds == 1..MaxTemplates
MessageIds == 1..MaxMessages
CaseTemplateIds == 1..MaxSnapshots

\* A nullable column: NULL, or a one-element tuple holding the value.
NULL == <<>>
Some(x) == <<x>>

VARIABLES
  cases,        \* table cases: id -> [user_id (creator), company_id]
  case_users,   \* table case_users: set of <<case_id, user_id>> (primary key)
  drafts,       \* table demand_letter_drafts: id -> row
  templates,    \* table templates: id -> [company_id, name, type, content]
  nextCaseId,   \* uuid_generate_v4() for cases: ids are never reused
  nextDraftId,  \* gen_random_uuid() for drafts: ids are never reused
  nextTemplateId,
  now,          \* new Date(): the last reading of the wall clock; each reading is later
  call,         \* per caller: the generateDraft call in flight, if any
  response,     \* what the request that completed last returned to its caller
  case_messages,       \* table case_messages: id -> [case_id, user_id (owner)]
  nextMessageId,       \* uuid_generate_v4() for case_messages
  case_templates,      \* table case_templates: id -> snapshot row
  nextCaseTemplateId,  \* uuid_generate_v4() for case_templates
  snap,         \* per caller: the getOrCreateCaseTemplate / addTemplateToCase call in flight
  rows,         \* the ids of the rows the last completed read returned
  evalStack,    \* row-security policies being expanded for the statement at hand, outermost first
  draftContent,   \* DraftViewerModal: currentDraft.rendered_content, the modal's content prop
  modalContent,   \* DocumentEditorModal: editorContent, the editor's content prop
  editorContent,  \* DocumentEditor: editorContent
  hasChanges,     \* DocumentEditor: hasChanges
  isSaving,       \* DocumentEditor: isSaving
  saveTimeout,    \* DocumentEditor: the pending auto-save timer and the content its handleSave closes over
  onSaveCalls,    \* the onSave calls in flight, in call order: the content each was passed
  lastOnSave      \* the content passed to the onSave call that resolved last

vars == <<cases, case_users, drafts, templates, nextCaseId, nextDraftId,
          nextTemplateId, now, call, response, case_messages, nextMessageId,
          case_templates, nextCaseTemplateId, snap, rows, evalStack,
          draftContent, modalContent, editorContent, hasChanges, isSaving,
          saveTimeout, onSaveCalls, lastOnSave>>

\* No snapshot request in flight.
SnapIdle == [pc |-> "idle", op |-> "none", case_id |-> 0, template_id |-> 0,
             template |-> NULL]

\* The chat messages, the template snapshots, and the rows of the last read.
messageVars == <<case_messages, nextMessageId>>
policyVars == <<evalStack>>
storeVars == <<cases, case_users, drafts, templates, nextCaseId, nextDraftId,
               nextTemplateId, now, call, response, case_messages, nextMessageId,
               case_templates, nextCaseTemplateId, snap, rows>>
editorVars == <<draftContent, modalContent, editorContent, hasChanges, isSaving,
                saveTimeout, onSaveCalls, lastOnSave>>
snapshotVars == <<case_templates, nextCaseTemplateId, snap>>

Idle == [pc |-> "idle", op |-> "none", case_id |-> 0, version |-> 0,
         content |-> "none", allocs |-> 0]

\* The request `op` of caller `u` has completed; `result` is what it returned:
\* "ok", or the error thrown ("error": no row; "denied": row policy violated;
\* "conflict": unique violation).
Respond(op, u, result) == [op |-> op, user |-> u, result |-> result]

\* -------------------------------------------------- trusted predicates
\* fix_user_profiles_rls.sql: SECURITY DEFINER, reads user_profiles unfiltered.
get_user_company_id(p_user_id) == user_profiles[p_user_id]

\* database_migration.sql: SECURITY DEFINER, reads case_users unfiltered.
is_user_on_case(p_case_id, p_user_id) == <<p_case_id, p_user_id>> \in case_users

\* --------------------------------------------------------- row policies
\* user_profiles FOR SELECT: company_id = get_user_company_id(auth.uid()).
UserProfilesSelect(uid, profile) ==
  user_profiles[profile] = get_user_company_id(uid)

\* The subquery "SELECT company_id FROM user_profiles WHERE id = auth.uid()",
\* evaluated as the caller, so under the user_profiles SELECT policy.
OwnCompanyIds(uid) ==
  {user_profiles[p] : p \in {q \in Users : q = uid /\ UserProfilesSelect(uid, q)}}

\* Mutant: the policy the migration dropped, "Users can view their own
\* cases": the creator only.
CasesSelect_CreatorOnly(uid, c) ==
  /\ c \in DOMAIN cases
  /\ cases[c].user_id = uid

\* cases FOR SELECT: creator, or on the case.
CasesSelect(uid, c) ==
  /\ c \in DOMAIN cases
  /\ \/ cases[c].user_id = uid
     \/ is_user_on_case(c, uid)

\* cases FOR UPDATE, USING: the same expression.  An UPDATE ... WHERE id = ...
\* also needs the row to pass the SELECT policy.
CasesUpdate(uid, c) ==
  /\ CasesSelect(uid, c)
  /\ \/ cases[c].user_id = uid
     \/ is_user_on_case(c, uid)

\* cases FOR UPDATE has no WITH CHECK: USING is also the check of the new row.
CasesUpdateCheck(uid, c, row) ==
  \/ row.user_id = uid
  \/ is_user_on_case(c, uid)

\* cases FOR DELETE, USING; the WHERE id = ... needs the SELECT policy too.
CasesDelete(uid, c) ==
  /\ CasesSelect(uid, c)
  /\ \/ cases[c].user_id = uid
     \/ is_user_on_case(c, uid)

\* cases FOR INSERT WITH CHECK.
CasesInsertCheck(uid, row) ==
  /\ row.company_id \in OwnCompanyIds(uid)
  /\ row.user_id = uid

\* "EXISTS (SELECT 1 FROM cases c JOIN user_profiles up ON up.id = auth.uid()
\* WHERE c.id = case_id AND c.company_id = up.company_id)", the subquery of the
\* case_users policies, over the cases table T as the caller sees it: a row of
\* T counts when the cases SELECT policy shows it to the caller.
CaseInOwnCompany(T, uid, c) ==
  /\ c \in DOMAIN T
  /\ T[c].user_id = uid \/ is_user_on_case(c, uid)
  /\ T[c].company_id \in OwnCompanyIds(uid)

\* "EXISTS (SELECT 1 FROM cases c2 WHERE c2.id = case_id AND c2.user_id =
\* auth.uid()) OR is_user_on_case(case_id, auth.uid())" over the cases table T.
CreatorOrOnCase(T, uid, c) ==
  \/ c \in DOMAIN T /\ T[c].user_id = uid
  \/ is_user_on_case(c, uid)

\* case_users FOR SELECT.
CaseUsersSelect(uid, c) == CaseInOwnCompany(cases, uid, c)

\* case_users FOR INSERT WITH CHECK, over the cases table T (the trigger of
\* cases runs it while the new case row is already there).
CaseUsersInsertCheck(T, uid, c, target) ==
  /\ CaseInOwnCompany(T, uid, c)
  /\ \E up2 \in Users :
       /\ up2 = target
       /\ UserProfilesSelect(uid, up2)
       /\ user_profiles[up2] \in OwnCompanyIds(uid)
  /\ CreatorOrOnCase(T, uid, c)

\* case_users FOR DELETE USING.
CaseUsersDelete(uid, c) ==
  /\ CaseUsersSelect(uid, c)
  /\ CaseInOwnCompany(cases, uid, c)
  /\ CreatorOrOnCase(cases, uid, c)

\* demand_letter_drafts, all four policies: EXISTS (SELECT 1 FROM case_users
\* WHERE case_id = row.case_id AND user_id = auth.uid()), a plain query of
\* case_users, so filtered by the case_users SELECT policy.
DraftsCaseUserExists(uid, c) ==
  \E m \in case_users : m = <<c, uid>> /\ CaseUsersSelect(uid, m[1])

DraftsSelect(uid, row) == DraftsCaseUserExists(uid, row.case_id)

DraftsInsertCheck(uid, row) ==
  /\ DraftsCaseUserExists(uid, row.case_id)
  /\ row.created_by = uid

DraftsUpdate(uid, row) ==
  /\ DraftsSelect(uid, row)
  /\ DraftsCaseUserExists(uid, row.case_id)

DraftsDelete(uid, row) ==
  /\ DraftsSelect(uid, row)
  /\ DraftsCaseUserExists(uid, row.case_id)

\* templates, all four policies: company_id IN (own company).
TemplatesPolicy(uid, row) == row.company_id \in OwnCompanyIds(uid)

\* case_templates, all four policies: the case is of the caller's company and
\* the caller is its creator or on it.
CaseTemplatesPolicy(uid, c) ==
  /\ CaseInOwnCompany(cases, uid, c)
  /\ CreatorOrOnCase(cases, uid, c)

\* case_messages, all four policies: user_id = auth.uid() AND EXISTS (SELECT 1
\* FROM case_users WHERE case_id = row.case_id AND user_id = auth.uid()), the
\* subquery filtered by the case_users SELECT policy.
MessagesPolicy(uid, row) ==
  /\ row.user_id = uid
  /\ \E m \in case_users : m = <<row.case_id, uid>> /\ CaseUsersSelect(uid, m[1])

\* ------------------------------------------------------ draft versioning
Max(S) == CHOOSE x \in S : \A y \in S : y <= x

CaseVersions(c) == {drafts[d].version_number : d \in {e \in DOMAIN drafts : drafts[e].case_id = c}}

\* Mutant: the WHERE case_id = p_case_id filter is lost.
get_next_draft_version_AllCases(p_case_id) ==
  LET vs == {drafts[d].version_number : d \in DOMAIN drafts}
  IN  IF vs = {} THEN 1 ELSE Max(vs) + 1

\* SELECT COALESCE(MAX(version_number), 0) + 1 FROM demand_letter_drafts
\* WHERE case_id = p_case_id; SECURITY DEFINER: not filtered by any policy.
get_next_draft_version(p_case_id) ==
  LET vs == CaseVersions(p_case_id)
  IN  IF vs = {} THEN 1 ELSE Max(vs) + 1

getNextVersionNumber(caseId) == get_next_draft_version(caseId)

\* Mutant: the table without its UNIQUE(case_id, version_number).
UniqueCaseVersion_Dropped(row) == TRUE

\* UNIQUE(case_id, version_number): may this row be inserted?
UniqueCaseVersion(row) ==
  \A d \in DOMAIN drafts :
    ~(drafts[d].case_id = row.case_id /\ drafts[d].version_number = row.version_number)

InFlight == {u \in Users : call[u].pc = "insert"}

\* generateDraft up to and including the rpc: the caller now holds versionNumber.
generateDraftBegin(u, caseId, renderedContent, op) ==
  /\ call[u].pc = "idle"
  /\ nextDraftId + Cardinality(InFlight) <= MaxDrafts
  /\ call' = [call EXCEPT ![u] =
                [pc |-> "insert", op |-> op, case_id |-> caseId,
                 version |-> getNextVersionNumber(caseId),
                 content |-> renderedContent, allocs |-> 1]]
  /\ UNCHANGED <<policyVars, editorVars, messageVars, snapshotVars, rows, cases, case_users, drafts, templates, nextCaseId, nextDraftId,
                 nextTemplateId, now, response>>

generateDraft(u, caseId, renderedContent) ==
  generateDraftBegin(u, caseId, renderedContent, "generateDraft")

\* Mutant: regeneration overwrites the current draft in place.
regenerateDraft_InPlace(u, caseId, renderedContent) ==
  /\ call[u].pc = "idle"
  /\ \E d \in DOMAIN drafts :
       /\ drafts[d].case_id = caseId
       /\ drafts[d].version_number = Max(CaseVersions(caseId))
       /\ DraftsUpdate(u, drafts[d])
       /\ drafts' = [drafts EXCEPT ![d].rendered_content = renderedContent,
                                   ![d].status = "draft"]
  /\ response' = Respond("regenerateDraft", u, "ok")
  /\ UNCHANGED <<policyVars, editorVars, messageVars, snapshotVars, rows, cases, case_users, templates, nextCaseId, nextDraftId,
                 nextTemplateId, now, call>>

\* regenerateDraft: return generateDraft(caseId, renderedContent, templateId).
regenerateDraft(u, caseId, renderedContent) ==
  generateDraftBegin(u, caseId, renderedContent, "regenerateDraft")

\* generateDraft, the INSERT ... RETURNING: the row policy is checked before
\* the unique index; an error is thrown to the caller, there is no second try.
generateDraftInsert(u) ==
  LET c == call[u]
      row == [case_id |-> c.case_id, version_number |-> c.version,
              status |-> "draft", rendered_content |-> c.content,
              created_by |-> u, saved_by |-> NULL, saved_at |-> NULL]
      result == IF ~DraftsInsertCheck(u, row) THEN "denied"
                ELSE IF ~UniqueCaseVersion(row) THEN "conflict"
                ELSE "ok"
  IN  /\ c.pc = "insert"
      /\ IF result = "ok"
           THEN /\ drafts' = (nextDraftId :> row) @@ drafts
                /\ nextDraftId' = nextDraftId + 1
           ELSE UNCHANGED <<drafts, nextDraftId>>
      /\ call' = [call EXCEPT ![u] = Idle]
      /\ response' = Respond(c.op, u, result)
      /\ UNCHANGED <<policyVars, editorVars, messageVars, snapshotVars, rows, cases, case_users, templates, nextCaseId, nextTemplateId, now>>

\* Mutant: a save of a saved draft flips it back to draft.
saveDraft_Toggle(u, draftId, t) ==
  /\ now < MaxClock
  /\ t = now + 1
  /\ now' = t
  /\ IF draftId \in DOMAIN drafts /\ DraftsUpdate(u, drafts[draftId])
       THEN /\ drafts' = [drafts EXCEPT
                 ![draftId].status = IF @ = "saved" THEN "draft" ELSE "saved",
                 ![draftId].saved_by = Some(u),
                 ![draftId].saved_at = Some(t)]
            /\ response' = Respond("saveDraft", u, "ok")
       ELSE /\ UNCHANGED drafts
            /\ response' = Respond("saveDraft", u, "error")
  /\ UNCHANGED <<policyVars, editorVars, messageVars, snapshotVars, rows, cases, case_users, templates, nextCaseId, nextDraftId,
                 nextTemplateId, call>>

\* Mutant: the save sets the status only.
saveDraft_StatusOnly(u, draftId, t) ==
  /\ now < MaxClock
  /\ t = now + 1
  /\ now' = t
  /\ IF draftId \in DOMAIN drafts /\ DraftsUpdate(u, drafts[draftId])
       THEN /\ drafts' = [drafts EXCEPT ![draftId].status = "saved"]
            /\ response' = Respond("saveDraft", u, "ok")
       ELSE /\ UNCHANGED drafts
            /\ response' = Respond("saveDraft", u, "error")
  /\ UNCHANGED <<policyVars, editorVars, messageVars, snapshotVars, rows, cases, case_users, templates, nextCaseId, nextDraftId,
                 nextTemplateId, call>>

\* saveDraft: UPDATE ... SET status, saved_by, saved_at WHERE id = draftId,
\* .select().single(): no row updated is an error.
saveDraft(u, draftId, t) ==
  /\ now < MaxClock
  /\ t = now + 1
  /\ now' = t
  /\ IF draftId \in DOMAIN drafts /\ DraftsUpdate(u, drafts[draftId])
       THEN /\ drafts' = [drafts EXCEPT ![draftId].status = "saved",
                                        ![draftId].saved_by = Some(u),
                                        ![draftId].saved_at = Some(t)]
            /\ response' = Respond("saveDraft", u, "ok")
       ELSE /\ UNCHANGED drafts
            /\ response' = Respond("saveDraft", u, "error")
  /\ UNCHANGED <<policyVars, editorVars, messageVars, snapshotVars, rows, cases, case_users, templates, nextCaseId, nextDraftId,
                 nextTemplateId, call>>

\* updateDraft(draftId, content): the content edit of an existing version,
\* rendered_content updated in place on the same row.
updateDraft(u, draftId, content) ==
  /\ IF draftId \in DOMAIN drafts /\ DraftsUpdate(u, drafts[draftId])
       THEN /\ drafts' = [drafts EXCEPT ![draftId].rendered_content = content]
            /\ response' = Respond("updateDraft", u, "ok")
       ELSE /\ UNCHANGED drafts
            /\ response' = Respond("updateDraft", u, "error")
  /\ UNCHANGED <<policyVars, editorVars, messageVars, snapshotVars, rows, cases, case_users, templates, nextCaseId, nextDraftId,
                 nextTemplateId, now, call>>

\* Mutant: the remaining versions of the case are renumbered 1..n.
deleteDraftVersion_Renumber(u, draftId) ==
  /\ IF draftId \in DOMAIN drafts /\ DraftsDelete(u, drafts[draftId])
       THEN LET c == drafts[draftId].case_id
                rest == DOMAIN drafts \ {draftId}
                rank(d) == Cardinality({e \in rest : drafts[e].case_id = c
                              /\ drafts[e].version_number <= drafts[d].version_number})
            IN  drafts' = [d \in rest |->
                  IF drafts[d].case_id = c
                    THEN [drafts[d] EXCEPT !.version_number = rank(d)]
                    ELSE drafts[d]]
       ELSE UNCHANGED drafts
  /\ response' = Respond("deleteDraftVersion", u, "ok")
  /\ UNCHANGED <<policyVars, editorVars, messageVars, snapshotVars, rows, cases, case_users, templates, nextCaseId, nextDraftId,
                 nextTemplateId, now, call>>

\* deleteDraftVersion: DELETE ... WHERE id = draftId; deleting no row is no error.
deleteDraftVersion(u, draftId) ==
  /\ IF draftId \in DOMAIN drafts /\ DraftsDelete(u, drafts[draftId])
       THEN drafts' = [d \in DOMAIN drafts \ {draftId} |-> drafts[d]]
       ELSE UNCHANGED drafts
  /\ response' = Respond("deleteDraftVersion", u, "ok")
  /\ UNCHANGED <<policyVars, editorVars, messageVars, snapshotVars, rows, cases, case_users, templates, nextCaseId, nextDraftId,
                 nextTemplateId, now, call>>

\* getDraft: SELECT * ... WHERE id = draftId, .single().
getDraft(u, draftId) ==
  /\ response' = Respond("getDraft", u,
       IF draftId \in DOMAIN drafts /\ DraftsSelect(u, drafts[draftId])
         THEN "ok" ELSE "error")
  /\ UNCHANGED <<policyVars, editorVars, messageVars, snapshotVars, rows, cases, case_users, drafts, templates, nextCaseId, nextDraftId,
                 nextTemplateId, now, call>>

\* ------------------------------------------------------ cases, membership
\* Mutant: no trigger on cases; the creator's row is left to a later request.
auto_add_case_creator_Missing(T, c) == [ok |-> TRUE, case_users |-> case_users]

\* auto_add_case_creator, AFTER INSERT ON cases: INSERT INTO case_users ... ON
\* CONFLICT DO NOTHING.  Not SECURITY DEFINER: the case_users INSERT policy is
\* checked for the creator, with the new case row in the table T.  The value
\* is whether the policy lets the row in, and the case_users table after it.
auto_add_case_creator(T, c) ==
  IF CaseUsersInsertCheck(T, T[c].user_id, c, T[c].user_id)
    THEN [ok |-> TRUE, case_users |-> case_users \cup {<<c, T[c].user_id>>}]
    ELSE [ok |-> FALSE, case_users |-> case_users]

\* createCase: the profile lookup, then INSERT INTO cases {...caseData,
\* user_id, company_id} with its trigger, one transaction.
createCase(u) ==
  LET profiles == {p \in Users : p = u /\ UserProfilesSelect(u, p)}
      row == [user_id |-> u, company_id |-> user_profiles[u]]
      T == (nextCaseId :> row) @@ cases
  IN  /\ nextCaseId <= MaxCases
      /\ IF profiles = {}
           THEN /\ response' = Respond("createCase", u, "error")
                /\ UNCHANGED <<cases, case_users, nextCaseId>>
           ELSE IF ~CasesInsertCheck(u, row) \/ ~auto_add_case_creator(T, nextCaseId).ok
             THEN /\ response' = Respond("createCase", u, "denied")
                  /\ UNCHANGED <<cases, case_users, nextCaseId>>
             ELSE /\ cases' = T
                  /\ case_users' = auto_add_case_creator(T, nextCaseId).case_users
                  /\ nextCaseId' = nextCaseId + 1
                  /\ response' = Respond("createCase", u, "ok")
      /\ UNCHANGED <<policyVars, editorVars, messageVars, snapshotVars, rows, drafts, templates, nextDraftId, nextTemplateId, now, call>>

\* getCase: SELECT * FROM cases WHERE id = caseId, .single().
getCase(u, caseId) ==
  /\ response' = Respond("getCase", u, IF CasesSelect(u, caseId) THEN "ok" ELSE "error")
  /\ UNCHANGED <<policyVars, editorVars, messageVars, snapshotVars, rows, cases, case_users, drafts, templates, nextCaseId, nextDraftId,
                 nextTemplateId, now, call>>

\* getCases: SELECT cases (...) FROM case_users WHERE user_id = user.id; the
\* case_users rows the SELECT policy shows, each with its case embedded, or
\* null where the cases SELECT policy hides it; .filter(Boolean) drops those.
getCases(u) ==
  /\ rows' = {c \in DOMAIN cases :
                /\ <<c, u>> \in case_users
                /\ CaseUsersSelect(u, c)
                /\ CasesSelect(u, c)}
  /\ response' = Respond("getCases", u, "ok")
  /\ UNCHANGED <<policyVars, editorVars, messageVars, snapshotVars, cases, case_users, drafts,
                 templates, nextCaseId, nextDraftId, nextTemplateId, now, call>>

\* The `updates` objects of updateCase: any column may be named.  Of the
\* modelled columns an update names none (title, contact_info, metadata),
\* user_id or company_id.
CaseUpdates ==
  {[user_id |-> NULL, company_id |-> NULL]}
    \cup {[user_id |-> Some(v), company_id |-> NULL] : v \in Users}
    \cup {[user_id |-> NULL, company_id |-> Some(k)] : k \in Companies}

ApplyCaseUpdates(row, updates) ==
  [user_id |-> IF updates.user_id = NULL THEN row.user_id ELSE updates.user_id[1],
   company_id |-> IF updates.company_id = NULL THEN row.company_id
                  ELSE updates.company_id[1]]

\* updateCase: UPDATE cases SET updates WHERE id = caseId, .select().single().
updateCase(u, caseId, updates) ==
  /\ IF ~CasesUpdate(u, caseId)
       THEN /\ response' = Respond("updateCase", u, "error")
            /\ UNCHANGED cases
       ELSE IF ~CasesUpdateCheck(u, caseId, ApplyCaseUpdates(cases[caseId], updates))
         THEN /\ response' = Respond("updateCase", u, "denied")
              /\ UNCHANGED cases
         ELSE /\ cases' = [cases EXCEPT ![caseId] = ApplyCaseUpdates(@, updates)]
              /\ response' = Respond("updateCase", u, "ok")
  /\ UNCHANGED <<policyVars, editorVars, messageVars, snapshotVars, rows, case_users, drafts, templates, nextCaseId, nextDraftId,
                 nextTemplateId, now, call>>

\* deleteCase: DELETE FROM cases WHERE id = caseId; no row deleted is no error.
\* case_users, demand_letter_drafts, case_messages and case_templates reference
\* cases ON DELETE CASCADE.
deleteCase(u, caseId) ==
  /\ IF CasesDelete(u, caseId)
       THEN /\ cases' = [c \in DOMAIN cases \ {caseId} |-> cases[c]]
            /\ case_users' = {m \in case_users : m[1] # caseId}
            /\ drafts' = [d \in {e \in DOMAIN drafts : drafts[e].case_id # caseId}
                            |-> drafts[d]]
            /\ case_messages' =
                 [m \in {e \in DOMAIN case_messages : case_messages[e].case_id # caseId}
                    |-> case_messages[m]]
            /\ case_templates' =
                 [t \in {e \in DOMAIN case_templates : case_templates[e].case_id # caseId}
                    |-> case_templates[t]]
       ELSE UNCHANGED <<cases, case_users, drafts, case_messages, case_templates>>
  /\ response' = Respond("deleteCase", u, "ok")
  /\ UNCHANGED <<policyVars, editorVars, nextMessageId, nextCaseTemplateId, snap, rows, templates, nextCaseId, nextDraftId, nextTemplateId, now, call>>

\* addUserToCase: INSERT INTO case_users, .select().single().  The row policy
\* is checked before the primary key.
addUserToCase(u, caseId, userId) ==
  LET result == IF ~CaseUsersInsertCheck(cases, u, caseId, userId) THEN "denied"
                ELSE IF <<caseId, userId>> \in case_users THEN "conflict"
                ELSE "ok"
  IN  /\ IF result = "ok"
           THEN case_users' = case_users \cup {<<caseId, userId>>}
           ELSE UNCHANGED case_users
      /\ response' = Respond("addUserToCase", u, result)
      /\ UNCHANGED <<policyVars, editorVars, messageVars, snapshotVars, rows, cases, drafts, templates, nextCaseId, nextDraftId,
                     nextTemplateId, now, call>>

\* removeUserFromCase: DELETE FROM case_users WHERE case_id = ... AND user_id
\* = ...; no row deleted is no error.
removeUserFromCase(u, caseId, userId) ==
  /\ IF <<caseId, userId>> \in case_users /\ CaseUsersDelete(u, caseId)
       THEN case_users' = case_users \ {<<caseId, userId>>}
       ELSE UNCHANGED case_users
  /\ response' = Respond("removeUserFromCase", u, "ok")
  /\ UNCHANGED <<policyVars, editorVars, messageVars, snapshotVars, rows, cases, drafts, templates, nextCaseId, nextDraftId,
                 nextTemplateId, now, call>>

\* --------------------------------------------------------------- messages
\* addCaseMessage: INSERT INTO case_messages {case_id, user_id: user.id, ...},
\* .select().single().
addCaseMessage(u, caseId) ==
  LET row == [case_id |-> caseId, user_id |-> u]
  IN  /\ nextMessageId <= MaxMessages
      /\ IF caseId \in DOMAIN cases /\ MessagesPolicy(u, row)
           THEN /\ case_messages' = (nextMessageId :> row) @@ case_messages
                /\ nextMessageId' = nextMessageId + 1
                /\ response' = Respond("addCaseMessage", u, "ok")
           ELSE /\ UNCHANGED <<case_messages, nextMessageId>>
                /\ response' = Respond("addCaseMessage", u, "denied")
      /\ UNCHANGED <<policyVars, editorVars, snapshotVars, rows, cases, case_users, drafts, templates, nextCaseId,
                     nextDraftId, nextTemplateId, now, call>>

\* getCaseMessages: SELECT * FROM case_messages WHERE case_id = caseId AND
\* user_id = user.id; the rows the SELECT policy shows, possibly none.
getCaseMessages(u, caseId) ==
  /\ rows' = {m \in DOMAIN case_messages :
                /\ case_messages[m].case_id = caseId
                /\ case_messages[m].user_id = u
                /\ MessagesPolicy(u, case_messages[m])}
  /\ response' = Respond("getCaseMessages", u, "ok")
  /\ UNCHANGED <<policyVars, editorVars, messageVars, snapshotVars, cases, case_users, drafts, templates,
                 nextCaseId, nextDraftId, nextTemplateId, now, call>>

\* -------------------------------------------------------------- templates
\* createCompanyTemplate: the profile lookup, then INSERT INTO templates with
\* the caller's company_id, template.name, template.type || 'demand-letter'
\* and template.content.
createCompanyTemplate(u, content) ==
  LET profiles == {p \in Users : p = u /\ UserProfilesSelect(u, p)}
      row == [company_id |-> user_profiles[u], name |-> "n1",
              type |-> "demand-letter", content |-> content]
  IN  /\ nextTemplateId <= MaxTemplates
      /\ IF profiles = {}
           THEN /\ response' = Respond("createCompanyTemplate", u, "error")
                /\ UNCHANGED <<templates, nextTemplateId>>
           ELSE IF ~TemplatesPolicy(u, row)
             THEN /\ response' = Respond("createCompanyTemplate", u, "denied")
                  /\ UNCHANGED <<templates, nextTemplateId>>
             ELSE /\ templates' = (nextTemplateId :> row) @@ templates
                  /\ nextTemplateId' = nextTemplateId + 1
                  /\ response' = Respond("createCompanyTemplate", u, "ok")
      /\ UNCHANGED <<policyVars, editorVars, messageVars, snapshotVars, rows, cases, case_users, drafts, nextCaseId, nextDraftId, now, call>>

\* getCompanyTemplate: SELECT * FROM templates WHERE id = templateId, .single().
getCompanyTemplate(u, templateId) ==
  /\ response' = Respond("getCompanyTemplate", u,
       IF templateId \in DOMAIN templates /\ TemplatesPolicy(u, templates[templateId])
         THEN "ok" ELSE "error")
  /\ UNCHANGED <<policyVars, editorVars, messageVars, snapshotVars, rows, cases, case_users, drafts, templates, nextCaseId, nextDraftId,
                 nextTemplateId, now, call>>

\* The `updates` objects of updateCompanyTemplate: any column may be named.
NoTemplateUpdate == [company_id |-> NULL, name |-> NULL, type |-> NULL, content |-> NULL]

\* Updates of the content, or of the company_id.
TemplateUpdates ==
  {[NoTemplateUpdate EXCEPT !.content = Some(t)] : t \in EditedTexts}
    \cup {[NoTemplateUpdate EXCEPT !.company_id = Some(k)] : k \in Companies}

\* Updates an editor of the template makes: the content, or the name, the
\* type and the content together.
TemplateEdits ==
  {[NoTemplateUpdate EXCEPT !.content = Some(t)] : t \in EditedTexts}
    \cup {[NoTemplateUpdate EXCEPT !.name = Some("n2"), !.type = Some("ty2"),
                                   !.content = Some(t)] : t \in EditedTexts}

ApplyTemplateUpdates(row, updates) ==
  [company_id |-> IF updates.company_id = NULL THEN row.company_id
                  ELSE updates.company_id[1],
   name |-> IF updates.name = NULL THEN row.name ELSE updates.name[1],
   type |-> IF updates.type = NULL THEN row.type ELSE updates.type[1],
   content |-> IF updates.content = NULL THEN row.content ELSE updates.content[1]]

\* updateCompanyTemplate: UPDATE templates SET updates WHERE id = templateId,
\* .select().single(); the UPDATE policy has USING only, so it also checks
\* the new row.
updateCompanyTemplate(u, templateId, updates) ==
  /\ IF ~(templateId \in DOMAIN templates /\ TemplatesPolicy(u, templates[templateId]))
       THEN /\ response' = Respond("updateCompanyTemplate", u, "error")
            /\ UNCHANGED templates
       ELSE IF ~TemplatesPolicy(u, ApplyTemplateUpdates(templates[templateId], updates))
         THEN /\ response' = Respond("updateCompanyTemplate", u, "denied")
              /\ UNCHANGED templates
         ELSE /\ templates' = [templates EXCEPT ![templateId] = ApplyTemplateUpdates(@, updates)]
              /\ response' = Respond("updateCompanyTemplate", u, "ok")
  /\ UNCHANGED <<policyVars, editorVars, messageVars, snapshotVars, rows, cases, case_users, drafts, nextCaseId, nextDraftId,
                 nextTemplateId, now, call>>

\* Mutant: case_templates.template_id references templates ON DELETE CASCADE.
deleteCompanyTemplate_Cascade(u, templateId) ==
  /\ IF templateId \in DOMAIN templates /\ TemplatesPolicy(u, templates[templateId])
       THEN /\ templates' = [t \in DOMAIN templates \ {templateId} |-> templates[t]]
            /\ case_templates' =
                 [s \in {e \in DOMAIN case_templates :
                           case_templates[e].template_id # Some(templateId)}
                    |-> case_templates[s]]
       ELSE UNCHANGED <<templates, case_templates>>
  /\ response' = Respond("deleteCompanyTemplate", u, "ok")
  /\ UNCHANGED <<policyVars, editorVars, messageVars, nextCaseTemplateId, snap, rows, cases, case_users, drafts,
                 nextCaseId, nextDraftId, nextTemplateId, now, call>>

\* deleteCompanyTemplate: DELETE FROM templates WHERE id = templateId;
\* case_templates.template_id references templates ON DELETE SET NULL.
deleteCompanyTemplate(u, templateId) ==
  /\ IF templateId \in DOMAIN templates /\ TemplatesPolicy(u, templates[templateId])
       THEN /\ templates' = [t \in DOMAIN templates \ {templateId} |-> templates[t]]
            /\ case_templates' =
                 [s \in DOMAIN case_templates |->
                    IF case_templates[s].template_id = Some(templateId)
                      THEN [case_templates[s] EXCEPT !.template_id = NULL]
                      ELSE case_templates[s]]
       ELSE UNCHANGED <<templates, case_templates>>
  /\ response' = Respond("deleteCompanyTemplate", u, "ok")
  /\ UNCHANGED <<policyVars, editorVars, messageVars, nextCaseTemplateId, snap, rows, cases, case_users, drafts, nextCaseId, nextDraftId,
                 nextTemplateId, now, call>>

\* -------------------------------------------------------------- snapshots
\* Snapshot requests between their first and their last round trip.
SnapInFlight == {u \in Users : snap[u].pc # "idle"}

\* The other tables and the draft requests, which no snapshot request touches.
snapshotFrame == <<policyVars, editorVars, messageVars, cases, case_users, drafts, nextCaseId, nextDraftId,
                   nextTemplateId, now, call>>

\* addTemplateToCase, first round trip: getCompanyTemplate(templateId), which
\* throws when .single() finds no row.  The request `op` keeps the template
\* it has read.
addTemplateToCaseFetch(u, caseId, templateId, op) ==
  /\ IF templateId \in DOMAIN templates /\ TemplatesPolicy(u, templates[templateId])
       THEN /\ snap' = [snap EXCEPT ![u] =
                          [pc |-> "insert", op |-> op, case_id |-> caseId,
                           template_id |-> templateId,
                           template |-> Some([name |-> templates[templateId].name,
                                              type |-> templates[templateId].type,
                                              content |-> templates[templateId].content])]]
            /\ UNCHANGED <<response, rows>>
       ELSE /\ snap' = [snap EXCEPT ![u] = SnapIdle]
            /\ response' = Respond(op, u, "error")
            /\ rows' = {}
  /\ UNCHANGED <<case_templates, nextCaseTemplateId, templates, snapshotFrame>>

\* addTemplateToCase(caseId, templateId), called on its own.
addTemplateToCase(u, caseId, templateId) ==
  /\ snap[u].pc = "idle"
  /\ nextCaseTemplateId + Cardinality(SnapInFlight) <= MaxSnapshots
  /\ addTemplateToCaseFetch(u, caseId, templateId, "addTemplateToCase")

\* addTemplateToCase, second round trip: INSERT INTO case_templates {case_id,
\* template_id, name, type, content of the template read, added_by},
\* .select().single().
\* The row policy is checked first, then the foreign key template_id; no
\* unique constraint covers (case_id, template_id).
addTemplateToCaseInsert(u) ==
  LET c == snap[u]
      row == [case_id |-> c.case_id, template_id |-> Some(c.template_id),
              name |-> c.template[1].name, type |-> c.template[1].type,
              content |-> c.template[1].content, added_by |-> u]
      result == IF ~(c.case_id \in DOMAIN cases /\ CaseTemplatesPolicy(u, c.case_id))
                  THEN "denied"
                ELSE IF c.template_id \notin DOMAIN templates THEN "error"
                ELSE "ok"
  IN  /\ c.pc = "insert"
      /\ IF result = "ok"
           THEN /\ case_templates' = (nextCaseTemplateId :> row) @@ case_templates
                /\ nextCaseTemplateId' = nextCaseTemplateId + 1
                /\ rows' = {nextCaseTemplateId}
           ELSE /\ UNCHANGED <<case_templates, nextCaseTemplateId>>
                /\ rows' = {}
      /\ snap' = [snap EXCEPT ![u] = SnapIdle]
      /\ response' = Respond(c.op, u, result)
      /\ UNCHANGED <<templates, snapshotFrame>>

\* Mutant: no lookup; every call goes on to addTemplateToCase.
getOrCreateCaseTemplate_NoLookup(u, caseId, companyTemplateId) ==
  /\ snap[u].pc = "idle"
  /\ nextCaseTemplateId + Cardinality(SnapInFlight) <= MaxSnapshots
  /\ snap' = [snap EXCEPT ![u] =
                [pc |-> "fetch", op |-> "getOrCreateCaseTemplate",
                 case_id |-> caseId, template_id |-> companyTemplateId,
                 template |-> NULL]]
  /\ UNCHANGED <<response, rows, case_templates, nextCaseTemplateId, templates,
                 snapshotFrame>>

\* getOrCreateCaseTemplate, first round trip: SELECT id FROM case_templates
\* WHERE case_id = caseId AND template_id = companyTemplateId, .maybeSingle():
\* no row is null, one row is returned, several rows are an error.  With no
\* row the request goes on to addTemplateToCase.
getOrCreateCaseTemplate(u, caseId, companyTemplateId) ==
  LET existing == {e \in DOMAIN case_templates :
                     /\ case_templates[e].case_id = caseId
                     /\ case_templates[e].template_id = Some(companyTemplateId)
                     /\ CaseTemplatesPolicy(u, caseId)}
  IN  /\ snap[u].pc = "idle"
      /\ IF existing = {}
           THEN /\ nextCaseTemplateId + Cardinality(SnapInFlight) <= MaxSnapshots
                /\ snap' = [snap EXCEPT ![u] =
                              [pc |-> "fetch", op |-> "getOrCreateCaseTemplate",
                               case_id |-> caseId, template_id |-> companyTemplateId,
                               template |-> NULL]]
                /\ UNCHANGED <<response, rows>>
           ELSE /\ UNCHANGED snap
                /\ response' = Respond("getOrCreateCaseTemplate", u,
                                       IF Cardinality(existing) = 1 THEN "ok" ELSE "error")
                /\ rows' = IF Cardinality(existing) = 1 THEN existing ELSE {}
      /\ UNCHANGED <<case_templates, nextCaseTemplateId, templates, snapshotFrame>>

\* getOrCreateCaseTemplate, after the lookup found nothing: the first round
\* trip of addTemplateToCase(caseId, companyTemplateId).
getOrCreateCaseTemplateFetch(u) ==
  /\ snap[u].pc = "fetch"
  /\ addTemplateToCaseFetch(u, snap[u].case_id, snap[u].template_id,
                            "getOrCreateCaseTemplate")

\* getCaseTemplate: SELECT * FROM case_templates WHERE id = caseTemplateId,
\* .single().
getCaseTemplate(u, caseTemplateId) ==
  LET shown == {s \in DOMAIN case_templates :
                  s = caseTemplateId /\ CaseTemplatesPolicy(u, case_templates[s].case_id)}
  IN  /\ rows' = shown
      /\ response' = Respond("getCaseTemplate", u, IF shown = {} THEN "error" ELSE "ok")
      /\ UNCHANGED <<case_templates, nextCaseTemplateId, snap, templates, snapshotFrame>>

\* updateCaseTemplate: UPDATE case_templates SET updates WHERE id =
\* caseTemplateId, .select().single(); the updates name the name, type or
\* content of the snapshot, the case_id stays, so the policy holds of the new
\* row as of the old one.
updateCaseTemplate(u, caseTemplateId, updates) ==
  /\ IF /\ caseTemplateId \in DOMAIN case_templates
        /\ CaseTemplatesPolicy(u, case_templates[caseTemplateId].case_id)
       THEN /\ case_templates' =
                 [case_templates EXCEPT ![caseTemplateId] =
                    [@ EXCEPT !.name = IF updates.name = NULL THEN @ ELSE updates.name[1],
                              !.type = IF updates.type = NULL THEN @ ELSE updates.type[1],
                              !.content = IF updates.content = NULL THEN @
                                          ELSE updates.content[1]]]
            /\ response' = Respond("updateCaseTemplate", u, "ok")
            /\ rows' = {caseTemplateId}
       ELSE /\ UNCHANGED case_templates
            /\ response' = Respond("updateCaseTemplate", u, "error")
            /\ rows' = {}
  /\ UNCHANGED <<nextCaseTemplateId, snap, templates, snapshotFrame>>

\* deleteCaseTemplate: DELETE FROM case_templates WHERE id = caseTemplateId.
deleteCaseTemplate(u, caseTemplateId) ==
  /\ IF /\ caseTemplateId \in DOMAIN case_templates
        /\ CaseTemplatesPolicy(u, case_templates[caseTemplateId].case_id)
       THEN case_templates' = [e \in DOMAIN case_templates \ {caseTemplateId}
                                 |-> case_templates[e]]
       ELSE UNCHANGED case_templates
  /\ response' = Respond("deleteCaseTemplate", u, "ok")
  /\ rows' = {}
  /\ UNCHANGED <<nextCaseTemplateId, snap, templates, snapshotFrame>>

\* ------------------------------------------------ row-security policies
\* The tables that have row level security enabled, and the commands a policy
\* can be written for.
Tables == {"companies", "user_profiles", "templates", "cases", "case_users",
           "case_templates", "demand_letter_drafts", "case_messages"}
Commands == {"SELECT", "INSERT", "UPDATE", "DELETE"}

\* Mutant: the policy as the migration first wrote it, "company_id IN (SELECT
\* company_id FROM user_profiles WHERE id = auth.uid())".
UserProfilesSelectQueries_Migration == {"user_profiles"}

\* "Users can view profiles in their company" as replaced by the fix:
\* company_id = get_user_company_id(auth.uid()), a SECURITY DEFINER function,
\* so the policy selects from no table under row security.
UserProfilesSelectQueries == {}

\* The policies that exist, as <<table, command>>.  case_users has none FOR
\* UPDATE, user_profiles none FOR INSERT or DELETE, companies only FOR SELECT.
Policies ==
  ({"templates", "cases", "case_templates", "demand_letter_drafts", "case_messages"}
     \X Commands)
    \cup ({"case_users"} \X {"SELECT", "INSERT", "DELETE"})
    \cup ({"user_profiles"} \X {"SELECT", "UPDATE"})
    \cup {<<"companies", "SELECT">>}

\* The tables the expression of policy <<t, cmd>> selects from in a subquery
\* of its own, which the caller's row security applies to.  is_user_on_case
\* and get_user_company_id are SECURITY DEFINER: what they read is not listed.
PolicyQueries(t, cmd) ==
  CASE t = "companies" -> {"user_profiles"}
    [] t = "user_profiles" -> IF cmd = "SELECT" THEN UserProfilesSelectQueries ELSE {}
    [] t = "templates" -> {"user_profiles"}
    [] t = "cases" -> IF cmd = "INSERT" THEN {"user_profiles"} ELSE {}
    [] t = "case_users" -> {"cases", "user_profiles"}
    [] t = "case_templates" -> {"cases", "user_profiles"}
    [] t = "demand_letter_drafts" -> {"case_users"}
    [] t = "case_messages" -> {"case_users"}

\* A statement cmd on table t arrives: its policy is to be expanded.
BeginStatement(t, cmd) ==
  /\ evalStack = <<>>
  /\ <<t, cmd>> \in Policies
  /\ evalStack' = <<[table |-> t, cmd |-> cmd, pending |-> PolicyQueries(t, cmd)]>>
  /\ UNCHANGED <<storeVars, editorVars>>

\* The policy on top selects from table s: the SELECT policy of s is expanded
\* inside it.
ExpandSubquery(s) ==
  /\ evalStack # <<>>
  /\ Len(evalStack) < MaxPolicyDepth
  /\ s \in evalStack[Len(evalStack)].pending
  /\ evalStack' =
       Append([evalStack EXCEPT ![Len(evalStack)].pending = @ \ {s}],
              [table |-> s, cmd |-> "SELECT", pending |-> PolicyQueries(s, "SELECT")])
  /\ UNCHANGED <<storeVars, editorVars>>

\* The policy on top has no subquery left: it is done.
PolicyExpanded ==
  /\ evalStack # <<>>
  /\ evalStack[Len(evalStack)].pending = {}
  /\ evalStack' = SubSeq(evalStack, 1, Len(evalStack) - 1)
  /\ UNCHANGED <<storeVars, editorVars>>

\* ------------------------------------------------------ document editor
\* DocumentEditor with autoSave, mounted by DraftViewerModal through
\* DocumentEditorModal.  A step is one handler together with the effects its
\* state updates set off.
TypedTexts == {"t1", "e1", "e2"}   \* contents the editor holds after an edit

\* The auto-save effect when it runs again: the cleanup clears the timer that
\* was pending, and a new one is set only if (autoSave && hasChanges && onSave
\* && !isSaving); its handleSave closes over the content of that render.
AutoSaveEffect(content, changes, saving) ==
  IF changes /\ ~saving THEN Some(content) ELSE NULL

RemoveAt(seq, i) == SubSeq(seq, 1, i - 1) \o SubSeq(seq, i + 1, Len(seq))

\* handleChange(value): the editor's state, then onContentChange, by which
\* DocumentEditorModal stores the value it passes back as the content prop.
handleChange(value) ==
  /\ value # editorContent
  /\ editorContent' = value
  /\ hasChanges' = TRUE
  /\ modalContent' = value
  /\ saveTimeout' = AutoSaveEffect(value, TRUE, isSaving)
  /\ UNCHANGED <<draftContent, isSaving, onSaveCalls, lastOnSave, storeVars, policyVars>>

\* The auto-save timer fires: handleSave of the render that set the timer, in
\* which isSaving was false; onSave is called with that render's content.
autoSaveTimeout ==
  /\ saveTimeout # NULL
  /\ Len(onSaveCalls) < MaxInFlight
  /\ isSaving' = TRUE
  /\ onSaveCalls' = Append(onSaveCalls, saveTimeout[1])
  /\ saveTimeout' = NULL
  /\ UNCHANGED <<draftContent, modalContent, editorContent, hasChanges, lastOnSave,
                 storeVars, policyVars>>

\* handleSave from the Save button, which is disabled when isSaving or
\* !hasChanges.  The dependencies of the auto-save effect do not change, so a
\* pending timer stays.
handleSave ==
  /\ hasChanges
  /\ ~isSaving
  /\ Len(onSaveCalls) < MaxInFlight
  /\ isSaving' = TRUE
  /\ onSaveCalls' = Append(onSaveCalls, editorContent)
  /\ UNCHANGED <<draftContent, modalContent, editorContent, hasChanges, saveTimeout,
                 lastOnSave, storeVars, policyVars>>

\* The onSave call i resolves: handleDraftContentSave sets currentDraft to the
\* updated row, handleSave goes on with setHasChanges(false) and, in finally,
\* setIsSaving(false).  Then the effects: DocumentEditorModal copies a changed
\* content prop into its editorContent; DocumentEditor, when its content prop
\* changed and differs from editorContent, takes it over and clears
\* hasChanges; the auto-save effect runs again if editorContent or hasChanges
\* changed.
onSaveResolves(i) ==
  LET saved == onSaveCalls[i]
      modal == IF saved # draftContent THEN saved ELSE modalContent
      editor == IF modal # modalContent /\ modal # editorContent
                  THEN modal ELSE editorContent
  IN  /\ i \in DOMAIN onSaveCalls
      /\ onSaveCalls' = RemoveAt(onSaveCalls, i)
      /\ lastOnSave' = Some(saved)
      /\ draftContent' = saved
      /\ modalContent' = modal
      /\ editorContent' = editor
      /\ hasChanges' = FALSE
      /\ isSaving' = FALSE
      /\ saveTimeout' = IF editor # editorContent \/ hasChanges
                          THEN AutoSaveEffect(editor, FALSE, FALSE)
                          ELSE saveTimeout
      /\ UNCHANGED <<storeVars, policyVars>>

\* The onSave call i rejects: the error is thrown on, setHasChanges is not
\* reached, finally sets isSaving to false.  No dependency of the auto-save
\* effect changes.
onSaveRejects(i) ==
  /\ i \in DOMAIN onSaveCalls
  /\ onSaveCalls' = RemoveAt(onSaveCalls, i)
  /\ isSaving' = FALSE
  /\ UNCHANGED <<draftContent, modalContent, editorContent, hasChanges, saveTimeout,
                 lastOnSave, storeVars, policyVars>>

\* No policy is being expanded; the editor shows the generated draft "t1",
\* unchanged and with nothing pending.
InitClient ==
  /\ evalStack = <<>>
  /\ draftContent = "t1"
  /\ modalContent = "t1"
  /\ editorContent = "t1"
  /\ hasChanges = FALSE
  /\ isSaving = FALSE
  /\ saveTimeout = NULL
  /\ onSaveCalls = <<>>
  /\ lastOnSave = NULL

\* ------------------------------------------------------- specification
\* The versioning engine on two existing cases of company O1: the store after
\* "A" and "B" have each created a case and "A" has added "B" to case 1; no
\* draft yet.  "X" belongs to company O2.
Init ==
  /\ cases = (1 :> [user_id |-> "A", company_id |-> "O1"])
             @@ (2 :> [user_id |-> "B", company_id |-> "O1"])
  /\ case_users = {<<1, "A">>, <<1, "B">>, <<2, "B">>}
  /\ drafts = <<>>
  /\ templates = <<>>
  /\ nextCaseId = 3
  /\ nextDraftId = 1
  /\ nextTemplateId = 1
  /\ now = 0
  /\ call = [u \in Users |-> Idle]
  /\ response = Respond("none", "none", "none")
  /\ case_messages = <<>>
  /\ nextMessageId = 1
  /\ case_templates = <<>>
  /\ nextCaseTemplateId = 1
  /\ snap = [u \in Users |-> SnapIdle]
  /\ rows = {}
  /\ InitClient

\* The callers of this specification are the users of company O1: B is on both
\* cases, A only on case 1.
O1Users == {u \in Users : user_profiles[u] = "O1"}

Next ==
  \/ \E u \in O1Users, c \in DOMAIN cases, t \in GeneratedTexts : generateDraft(u, c, t)
  \/ \E u \in O1Users, c \in DOMAIN cases, t \in GeneratedTexts : regenerateDraft(u, c, t)
  \/ \E u \in O1Users : generateDraftInsert(u)
  \/ \E u \in O1Users, d \in DraftIds, t \in 1..MaxClock : saveDraft(u, d, t)
  \/ \E u \in O1Users, d \in DraftIds, t \in EditedTexts : updateDraft(u, d, t)
  \/ \E u \in O1Users, d \in DraftIds : deleteDraftVersion(u, d)

Spec == Init /\ [][Next]_vars

\* The store as the migration leaves it: the user profiles, no case, no
\* template, no draft.
InitEmpty ==
  /\ cases = <<>>
  /\ case_users = {}
  /\ drafts = <<>>
  /\ templates = <<>>
  /\ nextCaseId = 1
  /\ nextDraftId = 1
  /\ nextTemplateId = 1
  /\ now = 0
  /\ call = [u \in Users |-> Idle]
  /\ response = Respond("none", "none", "none")
  /\ case_messages = <<>>
  /\ nextMessageId = 1
  /\ case_templates = <<>>
  /\ nextCaseTemplateId = 1
  /\ snap = [u \in Users |-> SnapIdle]
  /\ rows = {}
  /\ InitClient

\* Cases and their membership, every user of both companies calling.
NextCases ==
  \/ \E u \in Users : createCase(u)
  \/ \E u \in Users, c \in CaseIds : getCase(u, c)
  \/ \E u \in Users, c \in CaseIds, p \in CaseUpdates : updateCase(u, c, p)
  \/ \E u \in Users, c \in CaseIds : deleteCase(u, c)
  \/ \E u \in Users, c \in CaseIds, v \in Users : addUserToCase(u, c, v)
  \/ \E u \in Users, c \in CaseIds, v \in Users : removeUserFromCase(u, c, v)

SpecCases == InitEmpty /\ [][NextCases]_vars

\* Cases that are created, listed and read, and their membership rows; no
\* case is updated or deleted.
NextMembership ==
  \/ \E u \in Users : createCase(u)
  \/ \E u \in Users : getCases(u)
  \/ \E u \in Users, c \in CaseIds : getCase(u, c)
  \/ \E u \in Users, c \in CaseIds, v \in Users : addUserToCase(u, c, v)
  \/ \E u \in Users, c \in CaseIds, v \in Users : removeUserFromCase(u, c, v)

SpecMembership == InitEmpty /\ [][NextMembership]_vars

\* Cases, membership, templates and drafts together, called by one user of
\* each company; any user may be named as the member to add or remove or as
\* the new creator of a case.
TenantUsers == {"A", "X"}

NextTenant ==
  \/ \E u \in TenantUsers : createCase(u)
  \/ \E u \in TenantUsers, c \in CaseIds : getCase(u, c)
  \/ \E u \in TenantUsers, c \in CaseIds, p \in CaseUpdates : updateCase(u, c, p)
  \/ \E u \in TenantUsers, c \in CaseIds : deleteCase(u, c)
  \/ \E u \in TenantUsers, c \in CaseIds, v \in Users : addUserToCase(u, c, v)
  \/ \E u \in TenantUsers, c \in CaseIds, v \in Users : removeUserFromCase(u, c, v)
  \/ \E u \in TenantUsers, t \in GeneratedTexts : createCompanyTemplate(u, t)
  \/ \E u \in TenantUsers, t \in TemplateIds : getCompanyTemplate(u, t)
  \/ \E u \in TenantUsers, t \in TemplateIds, p \in TemplateUpdates :
       updateCompanyTemplate(u, t, p)
  \/ \E u \in TenantUsers, t \in TemplateIds : deleteCompanyTemplate(u, t)
  \/ \E u \in TenantUsers, c \in CaseIds, t \in GeneratedTexts : generateDraft(u, c, t)
  \/ \E u \in TenantUsers : generateDraftInsert(u)
  \/ \E u \in TenantUsers, d \in DraftIds : getDraft(u, d)
  \/ \E u \in TenantUsers, d \in DraftIds : deleteDraftVersion(u, d)

SpecTenant == InitEmpty /\ [][NextTenant]_vars

\* Cases, membership and the chat messages of the cases.
NextMessages ==
  \/ NextCases
  \/ \E u \in Users, c \in CaseIds : addCaseMessage(u, c)
  \/ \E u \in Users, c \in CaseIds : getCaseMessages(u, c)

SpecMessages == InitEmpty /\ [][NextMessages]_vars

\* The snapshots of one case of company O1, with "A" (its creator) and "B" on
\* it, and one template of the company.
InitSnapshots ==
  /\ cases = (1 :> [user_id |-> "A", company_id |-> "O1"])
  /\ case_users = {<<1, "A">>, <<1, "B">>}
  /\ drafts = <<>>
  /\ templates = (1 :> [company_id |-> "O1", name |-> "n1", type |-> "demand-letter",
                        content |-> "t1"])
  /\ nextCaseId = 2
  /\ nextDraftId = 1
  /\ nextTemplateId = 2
  /\ now = 0
  /\ call = [u \in Users |-> Idle]
  /\ response = Respond("none", "none", "none")
  /\ case_messages = <<>>
  /\ nextMessageId = 1
  /\ case_templates = <<>>
  /\ nextCaseTemplateId = 1
  /\ snap = [u \in Users |-> SnapIdle]
  /\ rows = {}
  /\ InitClient

\* The round trips that continue a snapshot request, and the template edits.
NextSnapshotsRest ==
  \/ \E u \in O1Users : getOrCreateCaseTemplateFetch(u)
  \/ \E u \in O1Users : addTemplateToCaseInsert(u)
  \/ \E u \in O1Users, e \in CaseTemplateIds : deleteCaseTemplate(u, e)
  \/ \E u \in O1Users, e \in CaseTemplateIds, p \in TemplateEdits :
       updateCaseTemplate(u, e, p)
  \/ \E u \in O1Users, t \in DOMAIN templates, p \in TemplateEdits :
       updateCompanyTemplate(u, t, p)
  \/ \E u \in O1Users, t \in DOMAIN templates : deleteCompanyTemplate(u, t)

\* Snapshot requests of "A" and "B" interleaved round trip by round trip.
NextSnapshots ==
  \/ \E u \in O1Users, c \in DOMAIN cases, t \in TemplateIds :
       getOrCreateCaseTemplate(u, c, t)
  \/ \E u \in O1Users, c \in DOMAIN cases, t \in TemplateIds :
       addTemplateToCase(u, c, t)
  \/ NextSnapshotsRest

SpecSnapshots == InitSnapshots /\ [][NextSnapshots]_vars

\* Snapshot requests called one after the other: a request starts only when
\* no snapshot request is in flight.
NextSnapshotsSeq ==
  \/ /\ SnapInFlight = {}
     /\ \E u \in O1Users, c \in DOMAIN cases, t \in TemplateIds :
          getOrCreateCaseTemplate(u, c, t)
  \/ /\ SnapInFlight = {}
     /\ \E u \in O1Users, c \in DOMAIN cases, t \in TemplateIds :
          addTemplateToCase(u, c, t)
  \/ NextSnapshotsRest

SpecSnapshotsSeq == InitSnapshots /\ [][NextSnapshotsSeq]_vars

\* ------------------------------------------------------------- claims
\* Snapshots made by getOrCreateCaseTemplate only, the calls of "A" and "B"
\* interleaved round trip by round trip.
NextSnapshotsRace ==
  \/ \E u \in O1Users, c \in DOMAIN cases, t \in TemplateIds :
       getOrCreateCaseTemplate(u, c, t)
  \/ NextSnapshotsRest

SpecSnapshotsRace == InitSnapshots /\ [][NextSnapshotsRace]_vars

\* A case of company O1 in use: "A" created it and added "B"; it has one
\* draft, one snapshot of the company's template, and one chat message of "B".
InitRevocation ==
  /\ cases = (1 :> [user_id |-> "A", company_id |-> "O1"])
  /\ case_users = {<<1, "A">>, <<1, "B">>}
  /\ drafts = (1 :> [case_id |-> 1, version_number |-> 1, status |-> "draft",
                     rendered_content |-> "t1", created_by |-> "A",
                     saved_by |-> NULL, saved_at |-> NULL])
  /\ templates = (1 :> [company_id |-> "O1", name |-> "n1", type |-> "demand-letter",
                        content |-> "t1"])
  /\ nextCaseId = 2
  /\ nextDraftId = 2
  /\ nextTemplateId = 2
  /\ now = 0
  /\ call = [u \in Users |-> Idle]
  /\ response = Respond("none", "none", "none")
  /\ case_messages = (1 :> [case_id |-> 1, user_id |-> "B"])
  /\ nextMessageId = 2
  /\ case_templates = (1 :> [case_id |-> 1, template_id |-> Some(1), name |-> "n1",
                             type |-> "demand-letter", content |-> "t1",
                             added_by |-> "A"])
  /\ nextCaseTemplateId = 2
  /\ snap = [u \in Users |-> SnapIdle]
  /\ rows = {}
  /\ InitClient

\* "A" removes "B" from the case and adds "B" again; "B" calls every
\* operation on the case, its drafts, its snapshots and its messages, and
\* tries to make itself the creator or a member.  The writes to a draft or
\* a snapshot that exists are the ones "B" tries while it has no row.
NextRevocation ==
  \/ removeUserFromCase("A", 1, "B")
  \/ addUserToCase("A", 1, "B")
  \/ getCases("B")
  \/ \E c \in CaseIds : getCase("B", c)
  \/ \E c \in CaseIds, p \in {q \in CaseUpdates : q.user_id \in {NULL, Some("B")}
                                                      /\ q.company_id = NULL} :
       updateCase("B", c, p)
  \/ \E c \in CaseIds : deleteCase("B", c)
  \/ \E c \in CaseIds : addUserToCase("B", c, "B")
  \/ \E c \in CaseIds : removeUserFromCase("B", c, "B")
  \/ \E c \in CaseIds, t \in GeneratedTexts : generateDraft("B", c, t)
  \/ generateDraftInsert("B")
  \/ \E d \in DraftIds : getDraft("B", d)
  \/ /\ <<1, "B">> \notin case_users
     /\ \E d \in DraftIds, t \in 1..MaxClock : saveDraft("B", d, t)
  \/ /\ <<1, "B">> \notin case_users
     /\ \E d \in DraftIds, t \in EditedTexts : updateDraft("B", d, t)
  \/ \E d \in DraftIds : deleteDraftVersion("B", d)
  \/ \E c \in CaseIds, t \in TemplateIds : getOrCreateCaseTemplate("B", c, t)
  \/ getOrCreateCaseTemplateFetch("B")
  \/ \E c \in CaseIds, t \in TemplateIds : addTemplateToCase("B", c, t)
  \/ addTemplateToCaseInsert("B")
  \/ \E e \in CaseTemplateIds : getCaseTemplate("B", e)
  \/ /\ <<1, "B">> \notin case_users
     /\ \E e \in CaseTemplateIds, p \in TemplateEdits : updateCaseTemplate("B", e, p)
  \/ \E e \in CaseTemplateIds : deleteCaseTemplate("B", e)
  \/ \E c \in CaseIds : getCaseMessages("B", c)
  \/ \E c \in CaseIds : addCaseMessage("B", c)

SpecRevocation == InitRevocation /\ [][NextRevocation]_vars

\* The expansion of the row-security policies of one statement after another;
\* an expansion under way is carried on.
NextPolicies ==
  \/ \E t \in Tables, cmd \in Commands : BeginStatement(t, cmd)
  \/ \E s \in Tables : ExpandSubquery(s)
  \/ PolicyExpanded

ExpandStep == (\E s \in Tables : ExpandSubquery(s)) \/ PolicyExpanded

SpecPolicies == InitEmpty /\ [][NextPolicies]_vars /\ WF_vars(ExpandStep)

\* The editor of one draft: the user types and clicks Save, the timer fires,
\* the onSave calls resolve or reject in any order.
NextEditor ==
  \/ \E value \in TypedTexts : handleChange(value)
  \/ autoSaveTimeout
  \/ handleSave
  \/ \E i \in 1..MaxInFlight : onSaveResolves(i)
  \/ \E i \in 1..MaxInFlight : onSaveRejects(i)

SpecEditor == InitEmpty /\ [][NextEditor]_vars

\* C1: in every reachable state the stored drafts of one case have pairwise
\* distinct version numbers, whatever the interleaving of generate,
\* regenerate and deleteVersion calls on the case.
C1_DistinctVersions ==
  \A d1 \in DOMAIN drafts, d2 \in DOMAIN drafts :
    (d1 # d2 /\ drafts[d1].case_id = drafts[d2].case_id)
      => drafts[d1].version_number # drafts[d2].version_number

\* Two calls collided on one version number and the table kept only one row.
C1_Witness ==
  /\ response.result = "conflict"
  /\ \E d \in DOMAIN drafts : drafts[d].version_number = 1

\* C2: two generate operations in flight on the same case are never handed
\* the same version number by nextVersion.
C2_AtomicAllocation ==
  \A u \in InFlight, v \in InFlight :
    (u # v /\ call[u].case_id = call[v].case_id) => call[u].version # call[v].version

\* C3: nextVersion(caseId) hands out 1 when the case has no drafts and else
\* exactly one more than the greatest version number stored for that case,
\* whatever the other cases hold.
C3_NextVersion ==
  [][\A u \in Users :
       (call[u].pc = "idle" /\ call'[u].pc = "insert") =>
         LET own == {d \in DOMAIN drafts : drafts[d].case_id = call'[u].case_id}
         IN  IF own = {}
               THEN call'[u].version = 1
               ELSE /\ \E d \in own : call'[u].version = drafts[d].version_number + 1
                    /\ \A d \in own : call'[u].version > drafts[d].version_number]_vars

\* A caller holds version 2 for a case whose only draft is version 1.
C3_Witness ==
  \E u \in InFlight :
    /\ call[u].version = 2
    /\ CaseVersions(call[u].case_id) = {1}

\* C4: a generate call whose insert collided allocates again; the conflict
\* reaches the caller only after at least one internal retry.
C4_RetryBeforeFailure ==
  [][\A u \in Users :
       (call[u].pc = "insert" /\ call'[u].pc = "idle"
          /\ response'.result = "conflict") => call[u].allocs > 1]_vars

\* C5: save on a draft that is already saved changes nothing: saved_by and
\* saved_at stay as the first save set them, whoever calls.
C5_SaveIdempotent ==
  [][\A u \in Users, d \in DOMAIN drafts, t \in 1..MaxClock :
       (saveDraft(u, d, t) /\ drafts[d].status = "saved") =>
         /\ drafts'[d].saved_by = drafts[d].saved_by
         /\ drafts'[d].saved_at = drafts[d].saved_at]_vars

\* C6: a saved draft stays saved in every later state, until it is deleted.
C6_SavedStaysSaved ==
  [][\A d \in DOMAIN drafts :
       (drafts[d].status = "saved" /\ d \in DOMAIN drafts')
         => drafts'[d].status = "saved"]_vars

\* A draft saved at the first clock reading is still saved after a later save
\* request and a content edit have run.
C6_Witness ==
  \E d \in DOMAIN drafts :
    /\ drafts[d].status = "saved"
    /\ drafts[d].saved_at = Some(1)
    /\ now > 1
    /\ response.op = "updateDraft"
    /\ response.result = "ok"

\* C7: regenerate leaves every existing draft of the case as it was, and when
\* it succeeds it has added exactly one draft, with the version number
\* nextVersion handed to the call, status draft and nobody as saver.
C7_RegenerateAddsOneVersion ==
  [][\A u \in Users :
       (\/ \E c \in DOMAIN cases, t \in GeneratedTexts : regenerateDraft(u, c, t)
        \/ call[u].op = "regenerateDraft" /\ generateDraftInsert(u)) =>
         /\ \A d \in DOMAIN drafts : d \in DOMAIN drafts' /\ drafts'[d] = drafts[d]
         /\ (call'[u].pc = "idle" /\ response'.result = "ok") =>
              \E n \in DOMAIN drafts' \ DOMAIN drafts :
                /\ DOMAIN drafts' = DOMAIN drafts \cup {n}
                /\ drafts'[n].case_id = call[u].case_id
                /\ drafts'[n].version_number = call[u].version
                /\ drafts'[n].status = "draft"
                /\ drafts'[n].saved_by = NULL
                /\ drafts'[n].saved_at = NULL
         /\ (call'[u].pc = "idle" /\ response'.result # "ok") => drafts' = drafts]_vars

\* regenerate has just succeeded on a case whose version 1 is saved: version 1
\* is still saved and version 2 is a draft.
C7_Witness ==
  /\ response.op = "regenerateDraft"
  /\ response.result = "ok"
  /\ \E d \in DOMAIN drafts, e \in DOMAIN drafts :
       /\ drafts[d].case_id = drafts[e].case_id
       /\ drafts[d].version_number = 1 /\ drafts[d].status = "saved"
       /\ drafts[e].version_number = 2 /\ drafts[e].status = "draft"

\* C8: deleteVersion(draftId) removes that draft, when the caller may delete
\* it, and nothing else: every other draft keeps its row (no renumbering).
C8_DeleteRemovesOnlyThatDraft ==
  [][\A u \in {response'.user} \cap Users, d \in DraftIds :
       (response'.op = "deleteDraftVersion" /\ deleteDraftVersion(u, d)) =>
         /\ DOMAIN drafts' \subseteq DOMAIN drafts
         /\ DOMAIN drafts \ DOMAIN drafts' \subseteq {d}
         /\ \A e \in DOMAIN drafts' : drafts'[e] = drafts[e]
         /\ (d \in DOMAIN drafts
               /\ <<drafts[d].case_id, u>> \in case_users
               /\ cases[drafts[d].case_id].company_id = user_profiles[u])
              => d \notin DOMAIN drafts']_vars

\* Version 1 of case 1 has just been deleted: version 2 is still version 2.
C8_Witness ==
  /\ response.op = "deleteDraftVersion"
  /\ CaseVersions(1) = {2}



\* C9 -- tenant isolation.  In every step, a caller whose company is not the
\* company of a case, of a template or of a draft's case is denied: getCase,
\* updateCase and getDraft do not answer "ok", deleteCase, deleteDraftVersion
\* and deleteCompanyTemplate leave the row in place, the template reads and
\* updates do not answer "ok", and the caller is neither handed a version
\* number of the case's drafts nor lets a draft into the case.
C9_TenantIsolation ==
  [][\A u \in TenantUsers :
       /\ \A c \in DOMAIN cases :
            cases[c].company_id # user_profiles[u] =>
              /\ getCase(u, c) => response'.result # "ok"
              /\ \A p \in CaseUpdates : updateCase(u, c, p) => response'.result # "ok"
              /\ deleteCase(u, c) => c \in DOMAIN cases'
              /\ \A t \in GeneratedTexts :
                   generateDraft(u, c, t) => call'[u].case_id # c
              /\ (call[u].pc = "insert" /\ call[u].case_id = c /\ generateDraftInsert(u))
                   => response'.result # "ok"
       /\ \A d \in DOMAIN drafts :
            (/\ drafts[d].case_id \in DOMAIN cases
             /\ cases[drafts[d].case_id].company_id # user_profiles[u]) =>
              /\ getDraft(u, d) => response'.result # "ok"
              /\ deleteDraftVersion(u, d) => d \in DOMAIN drafts'
       /\ \A t \in DOMAIN templates :
            templates[t].company_id # user_profiles[u] =>
              /\ getCompanyTemplate(u, t) => response'.result # "ok"
              /\ \A p \in TemplateUpdates :
                   updateCompanyTemplate(u, t, p) => response'.result # "ok"
              /\ deleteCompanyTemplate(u, t) => t \in DOMAIN templates'
    ]_vars

C11_MembershipMutation ==
  [][\A c \in DOMAIN cases, v \in Users :
       LET u == response'.user
           callerOnCase == cases[c].user_id = u \/ <<c, u>> \in case_users
           targetInCompany == user_profiles[v] = cases[c].company_id
       IN  /\ (response'.op = "addUserToCase" /\ addUserToCase(u, c, v)) =>
                 (response'.result # "denied" <=> (callerOnCase /\ targetInCompany))
           /\ (/\ response'.op = "removeUserFromCase"
               /\ <<c, v>> \in case_users
               /\ removeUserFromCase(u, c, v)) =>
                 (<<c, v>> \notin case_users' <=> callerOnCase)
    ]_vars


\* C12 -- case creation is one unit with the creator's membership: a step of
\* createCase that leaves a new case leaves exactly one membership row for
\* it, the creator's, and a createCase that is refused leaves neither a case
\* nor a membership row.
C12_CreateCaseAtomic ==
  [][\A u \in Users :
       (response'.op = "createCase" /\ createCase(u)) =>
         /\ \A c \in DOMAIN cases' \ DOMAIN cases :
              /\ cases'[c].user_id = u
              /\ {m \in case_users' : m[1] = c} = {<<c, u>>}
         /\ response'.result = "ok" => DOMAIN cases' # DOMAIN cases
         /\ response'.result # "ok" => cases' = cases /\ case_users' = case_users
    ]_vars

\* C12 witness: "X" has just created case 1, and the only membership row of
\* the case is the creator's.
C12_Witness ==
  /\ response = Respond("createCase", "X", "ok")
  /\ 1 \in DOMAIN cases
  /\ cases[1].user_id = "X"
  /\ case_users = {<<1, "X">>}


\* C13 -- adding a (case, user) pair that already has a membership row, by a
\* caller the membership policy lets add it, succeeds without an error and
\* leaves the membership table as it was.
C13_AddMemberIdempotent ==
  [][\A c \in DOMAIN cases, v \in Users :
       LET u == response'.user
       IN  (/\ response'.op = "addUserToCase"
            /\ <<c, v>> \in case_users
            /\ CaseUsersInsertCheck(cases, u, c, v)
            /\ addUserToCase(u, c, v)) =>
              /\ response'.result = "ok"
              /\ case_users' = case_users
    ]_vars


\* C14 -- a draft is read, generated and deleted by exactly the callers that
\* are the creator of its case or have a membership row for the case, also
\* after membership rows were removed: getDraft answers the draft exactly for
\* them, deleteDraftVersion removes it exactly for them, and the INSERT of
\* generateDraft is refused by the row policy exactly for everybody else.
\* Stated for the callers that belong to the company of the case.
C14_DraftAccess ==
  [][/\ \A d \in DOMAIN drafts :
          LET u == response'.user
              c == drafts[d].case_id
              onCase == cases[c].user_id = u \/ <<c, u>> \in case_users
          IN  (c \in DOMAIN cases /\ user_profiles[u] = cases[c].company_id) =>
                /\ (response'.op = "getDraft" /\ getDraft(u, d)) =>
                      (response'.result = "ok" <=> onCase)
                /\ (response'.op = "deleteDraftVersion" /\ deleteDraftVersion(u, d)) =>
                      (d \notin DOMAIN drafts' <=> onCase)
     /\ \A u \in Users :
          LET c == call[u].case_id
              onCase == cases[c].user_id = u \/ <<c, u>> \in case_users
          IN  (/\ call[u].pc = "insert"
               /\ c \in DOMAIN cases
               /\ user_profiles[u] = cases[c].company_id
               /\ generateDraftInsert(u)) =>
                (response'.result # "denied" <=> onCase)
    ]_vars


\* C15 -- messages are private per owner.  addCaseMessage stores the caller's
\* message exactly when the caller has a membership row for the case, and
\* getCaseMessages returns to a caller exactly the messages of the case that
\* the caller owns, when the caller has a membership row, and nothing
\* otherwise; a message is never returned to another user than its owner.
C15_MessagesPrivate ==
  [][\A c \in DOMAIN cases :
       LET u == response'.user
       IN  /\ (response'.op = "addCaseMessage" /\ addCaseMessage(u, c)) =>
                 (response'.result = "ok" <=> <<c, u>> \in case_users)
           /\ (response'.op = "getCaseMessages" /\ getCaseMessages(u, c)) =>
                 rows' = {m \in DOMAIN case_messages :
                            /\ case_messages[m].case_id = c
                            /\ case_messages[m].user_id = u
                            /\ <<c, u>> \in case_users}
    ]_vars


\* C16 -- uniform denial.  What a caller is answered about a case or a draft
\* that exists but that the caller may not access (the caller is of another
\* company, is not the creator and has no membership row) is what the caller
\* is answered about an id that names no row: getCase and getDraft answer the
\* no-row error, deleteCase and deleteDraftVersion delete nothing, and
\* getNextVersionNumber hands out what it hands out for a case without
\* drafts.  Case id 0 names no row.
C16_UniformDenial ==
  [][\A u \in TenantUsers :
       LET forbidden(c) == /\ c \in DOMAIN cases
                           /\ cases[c].company_id # user_profiles[u]
                           /\ cases[c].user_id # u
                           /\ <<c, u>> \notin case_users
       IN  /\ \A c \in CaseIds :
                forbidden(c) =>
                  /\ getCase(u, c) => response'.result = "error"
                  /\ deleteCase(u, c) => cases' = cases
                  /\ \A t \in GeneratedTexts :
                       generateDraft(u, c, t) =>
                         call'[u].version = getNextVersionNumber(0)
           /\ \A d \in DOMAIN drafts :
                forbidden(drafts[d].case_id) =>
                  /\ getDraft(u, d) => response'.result = "error"
                  /\ deleteDraftVersion(u, d) => drafts' = drafts
    ]_vars


\* C17 -- getOrCreateCaseTemplate called again with the same (caseId,
\* templateId), directly after a call that returned the snapshot s, with
\* requests made one after the other: the second call returns s too, and
\* creates no row.
C17_GetOrCreateIdempotent ==
  [][\A u \in Users, c \in CaseIds, t \in TemplateIds :
       (/\ response.op = "getOrCreateCaseTemplate"
        /\ response.result = "ok"
        /\ rows # {}
        /\ \A s \in rows : /\ s \in DOMAIN case_templates
                           /\ case_templates[s].case_id = c
                           /\ case_templates[s].template_id = Some(t)
        /\ getOrCreateCaseTemplate(u, c, t)) =>
          /\ response' = Respond("getOrCreateCaseTemplate", u, "ok")
          /\ rows' = rows
          /\ case_templates' = case_templates
          /\ nextCaseTemplateId' = nextCaseTemplateId
          /\ snap'[u].pc = "idle"
    ]_vars

\* C17 witness: "B" has been returned snapshot 1, which "A" had added, and no
\* second snapshot was ever created.
C17_Witness ==
  /\ response = Respond("getOrCreateCaseTemplate", "B", "ok")
  /\ rows = {1}
  /\ 1 \in DOMAIN case_templates
  /\ case_templates[1].added_by = "A"
  /\ nextCaseTemplateId = 2

\* C18 -- whenever no snapshot request is in flight, no two snapshots have the
\* same case and the same template.
C18_OneSnapshotPerPair ==
  SnapInFlight = {} =>
    \A s, e \in DOMAIN case_templates :
      (/\ case_templates[s].case_id = case_templates[e].case_id
       /\ case_templates[s].template_id # NULL
       /\ case_templates[s].template_id = case_templates[e].template_id) => s = e

\* C19 -- a snapshot is written with the name, type and content that its
\* request read from the template, and a later update or deletion of the
\* template leaves every snapshot in place with its name, type and content.
C19_SnapshotKeepsCopy ==
  [][/\ \A u \in Users, t \in TemplateIds :
          (\/ \E p \in TemplateEdits : updateCompanyTemplate(u, t, p)
           \/ deleteCompanyTemplate(u, t)) =>
            \A s \in DOMAIN case_templates :
              /\ s \in DOMAIN case_templates'
              /\ case_templates'[s].name = case_templates[s].name
              /\ case_templates'[s].type = case_templates[s].type
              /\ case_templates'[s].content = case_templates[s].content
     /\ \A s \in DOMAIN case_templates' \ DOMAIN case_templates :
          \E u \in Users :
            /\ snap[u].pc = "insert"
            /\ snap'[u].pc = "idle"
            /\ case_templates'[s].name = snap[u].template[1].name
            /\ case_templates'[s].type = snap[u].template[1].type
            /\ case_templates'[s].content = snap[u].template[1].content
    ]_vars

\* C19 witness: the template was taken into a snapshot, then renamed, retyped
\* and rewritten, then deleted; the snapshot still has what it was taken with.
C19_Witness ==
  /\ response.op = "deleteCompanyTemplate"
  /\ templates = <<>>
  /\ nextCaseTemplateId = 3
  /\ \E s, e \in DOMAIN case_templates :
       /\ case_templates[s].template_id = NULL
       /\ case_templates[s].name = "n1"
       /\ case_templates[s].content = "t1"
       /\ case_templates[e].template_id = NULL
       /\ case_templates[e].name = "n2"
       /\ case_templates[e].type = "ty2"
       /\ case_templates[e].content = "t2"


\* C20 -- a version number that was assigned is never assigned again: once a
\* draft is deleted, the next number handed out for its case is still greater
\* than the number the deleted draft had, also when it had the highest one.
C20_VersionNeverReused ==
  [][\A u \in Users, d \in DOMAIN drafts :
       (/\ response'.op = "deleteDraftVersion"
        /\ deleteDraftVersion(u, d)
        /\ d \notin DOMAIN drafts') =>
          LET left == {drafts'[e].version_number :
                         e \in {x \in DOMAIN drafts' :
                                  drafts'[x].case_id = drafts[d].case_id}}
          IN  (IF left = {} THEN 1 ELSE Max(left) + 1) > drafts[d].version_number
    ]_vars


\* C21 -- in every reachable state a draft has saved_by and saved_at set when
\* its status is saved and has neither set when its status is draft; a row
\* that generateDraft has just inserted has status draft and neither set.
C21_SavedFieldsMatchStatus ==
  /\ [](\A d \in DOMAIN drafts :
          /\ drafts[d].status \in {"draft", "saved"}
          /\ drafts[d].status = "saved" <=>
               (drafts[d].saved_by # NULL /\ drafts[d].saved_at # NULL)
          /\ drafts[d].status = "draft" <=>
               (drafts[d].saved_by = NULL /\ drafts[d].saved_at = NULL))
  /\ [][\A d \in DOMAIN drafts' \ DOMAIN drafts :
          /\ drafts'[d].status = "draft"
          /\ drafts'[d].saved_by = NULL
          /\ drafts'[d].saved_at = NULL]_vars

\* C21 witness: a saved draft, stamped by "A", next to a draft generated
\* after it that nobody saved.
C21_Witness ==
  /\ response.op \in {"generateDraft", "regenerateDraft"}
  /\ response.result = "ok"
  /\ \E d, e \in DOMAIN drafts :
       /\ d < e
       /\ drafts[d].status = "saved"
       /\ drafts[d].saved_by = Some("A")
       /\ drafts[d].saved_at = Some(1)
       /\ drafts[e].status = "draft"
       /\ drafts[e].saved_by = NULL


\* C22 -- a createCase, addUserToCase or removeUserFromCase call made while
\* every case has the membership row of its creator leaves every case with
\* the membership row of its creator.
C22_CreatorStaysMember ==
  [][(/\ response'.op \in {"createCase", "addUserToCase", "removeUserFromCase"}
      /\ \A c \in DOMAIN cases : <<c, cases[c].user_id>> \in case_users) =>
        \A c \in DOMAIN cases' : <<c, cases'[c].user_id>> \in case_users'
    ]_vars

\* C23 -- in every reachable state the user of each membership row belongs to
\* the company of the row's case.
C23_MembersOfSameCompany ==
  \A m \in case_users :
    m[1] \in DOMAIN cases => user_profiles[m[2]] = cases[m[1]].company_id

\* C24 -- createCase stores the caller as creator and the caller's company,
\* and no updateCase changes the creator or the company of a case.
C24_CompanyFixedAtCreation ==
  [][/\ \A c \in DOMAIN cases' \ DOMAIN cases :
          /\ response'.op = "createCase"
          /\ cases'[c].user_id = response'.user
          /\ cases'[c].company_id = user_profiles[response'.user]
     /\ response'.op = "updateCase" =>
          \A c \in DOMAIN cases :
            /\ c \in DOMAIN cases'
            /\ cases'[c].user_id = cases[c].user_id
            /\ cases'[c].company_id = cases[c].company_id
    ]_vars


C30_NoEditLost ==
  (/\ ~hasChanges
   /\ ~isSaving
   /\ onSaveCalls = <<>>
   /\ lastOnSave # NULL) => lastOnSave = Some(editorContent)


\* C26 -- no step changes the name, the type or the content of a snapshot
\* that exists before and after it.
C26_SnapshotImmutable ==
  [][\A s \in DOMAIN case_templates \cap DOMAIN case_templates' :
       /\ case_templates'[s].name = case_templates[s].name
       /\ case_templates'[s].type = case_templates[s].type
       /\ case_templates'[s].content = case_templates[s].content]_vars


\* C27 -- once two snapshots of one (case, template) pair are stored, a
\* getOrCreateCaseTemplate call for the pair completes without error and
\* returns the id of one of them.
C27_DuplicateIsBenign ==
  [][\A u \in Users, c \in DOMAIN cases, t \in TemplateIds :
       LET pair == {s \in DOMAIN case_templates :
                      /\ case_templates[s].case_id = c
                      /\ case_templates[s].template_id = Some(t)}
       IN  (/\ Cardinality(pair) >= 2
            /\ CaseTemplatesPolicy(u, c)
            /\ getOrCreateCaseTemplate(u, c, t)) =>
              /\ response' = Respond("getOrCreateCaseTemplate", u, "ok")
              /\ Cardinality(rows') = 1
              /\ rows' \subseteq pair
    ]_vars


\* C28 -- getCases called by u returns exactly the cases that getCase lets u
\* read.
C28_ListingAgreesWithAccess ==
  [][\A u \in Users :
       getCases(u) => rows' = {c \in CaseIds : CasesSelect(u, c)}]_vars


\* C29 -- while "B" is not the creator of case 1 and has no membership row
\* for it, no round trip of "B" reads or writes anything of the case: the
\* tables stay as they are, a request that answers a row answers an error, a
\* request that answers rows answers none, and the version number handed to
\* a generateDraft of "B" is the one of a case without drafts.
C29_RevocationAtOnce ==
  [][(/\ 1 \in DOMAIN cases
      /\ cases[1].user_id # "B"
      /\ <<1, "B">> \notin case_users
      /\ \/ response'.user = "B" /\ response' # response
         \/ call'["B"] # call["B"]
         \/ snap'["B"] # snap["B"]
         \/ rows' # rows) =>
        /\ UNCHANGED <<cases, case_users, drafts, case_templates, case_messages>>
        /\ response' # response =>
             \/ response'.result \in {"error", "denied"}
             \/ /\ response'.op \in {"getCases", "getCaseMessages", "deleteCase",
                                     "removeUserFromCase", "deleteDraftVersion",
                                     "deleteCaseTemplate"}
                /\ rows' = {} \/ rows' = rows
        /\ rows' # rows => rows' = {}
        /\ (call["B"].pc = "idle" /\ call'["B"].pc = "insert") =>
             call'["B"].version = 1
    ]_vars

====
